---- MODULE Spec2Model ----
(***************************************************************************)
(* Model of ieegprep/utils/misc.py: allocate_array, number_to_padded_string *)
(* and numbers_to_padded_string, run_cmd, time_func and clear_virtual_cache.*)
(* Each function is a sequential routine; its position is a pc variable and *)
(* every step of its body is one action.  Strings are sequences of          *)
(* one-character strings so that lengths and contents can be computed.      *)
(***************************************************************************)
EXTENDS Integers, Sequences, FiniteSets, TLC

VARIABLES
    \* ---- allocate_array ----
    apc,                \* position in allocate_array
    dimensions,         \* argument: the shape (a tuple of ints)
    itemsize,           \* argument: bytes per element of dtype
    fill_value,         \* argument
    sysAvailable,       \* what psutil would report as available bytes
    sysUsed,            \* what psutil would report as used bytes
    mem,                \* local: None or the result of virtual_memory()
    data,               \* local: the ndarray (None before np.empty)
    data_bytes_needed,  \* local: data.nbytes (None before it is assigned)
    alog,               \* records emitted through logging.error
    aexc,               \* exception in flight / propagated to the caller
    aret,               \* value returned to the caller
    \* ---- numbers_to_padded_string ----
    fpc, values, width, pos_space, separator, fret,
    \* ---- time_func ----
    tpc, loopArg, pre_fun, loop, iLoop, times, clock, time1, time2, events, tret,
    \* ---- clear_virtual_cache / run_cmd ----
    func, cpc, platform, exeExists, scriptExists, scriptExecutable, environ, environ0,
    cmdEnv, retry_purge, purgeStatus, systemCalls, subprocessEnv, syncCalls,
    dropCaches, console, cexc

allocVars == <<apc, dimensions, itemsize, fill_value, sysAvailable, sysUsed, mem,
               data, data_bytes_needed, alog, aexc, aret>>
fmtVars == <<fpc, values, width, pos_space, separator, fret>>
timeVars == <<tpc, loopArg, pre_fun, loop, iLoop, times, clock, time1, time2,
              events, tret>>
cacheVars == <<func, cpc, platform, exeExists, scriptExists, scriptExecutable, environ,
                environ0, cmdEnv, retry_purge, purgeStatus, systemCalls,
                subprocessEnv, syncCalls, dropCaches, console, cexc>>
vars == <<allocVars, fmtVars, timeVars, cacheVars>>

\* Python's None; a value that may be None is None or Some(v)
None == <<>>
Some(v) == <<v>>
Val(o) == o[1]

\* "no exception"
NoExc == "none"

Max(a, b) == IF a >= b THEN a ELSE b

\* ---------------------------------------------------------------- bounds
MaxDim == 2
MaxAvail == 9
MaxCount == 3
MaxWidth == 12
MaxLoop == 3
MaxDur == 1

\* ================================================================
\* allocate_array
\* ================================================================

ItemSizes == {1, 2, 4, 8}
FillValues == {"nan", "0"}
UsedSet == {0, 1048570, 2097152}
BytesPerMB == 1048576

Shapes == {<<a>> : a \in 0..MaxDim} \cup {<<a, b>> : a \in 0..MaxDim, b \in 0..MaxDim}

RECURSIVE Product(_)
Product(s) == IF s = <<>> THEN 1 ELSE Head(s) * Product(Tail(s))

\* ndarray.nbytes
NBytes(shape, isz) == Product(shape) * isz

\* the test of line 49
MemcheckOffByOne(available, needed) == available < needed
InsufficientMemory(available, needed) == available <= needed

\* the diagnostic of lines 59-62
LogRecord(m, needed) ==
    IF m = None
    THEN [level |-> "error", kind |-> "reduced", mb |-> None]
    ELSE [level |-> "error", kind |-> "quantified",
          mb |-> Some((Val(m).used + Val(needed)) \div BytesPerMB)]

AllocIdle ==
    /\ apc = "idle" /\ dimensions = <<>> /\ itemsize = 0 /\ fill_value = "nan"
    /\ sysAvailable = 0 /\ sysUsed = 0 /\ mem = None /\ data = None
    /\ data_bytes_needed = None /\ alog = <<>> /\ aexc = NoExc /\ aret = None

\* the call: arguments and the machine's memory are inputs; line 37
AllocInit ==
    /\ apc = "np_empty"
    /\ dimensions \in Shapes
    /\ itemsize \in ItemSizes
    /\ fill_value \in FillValues
    /\ sysAvailable \in 0..MaxAvail
    /\ sysUsed \in UsedSet
    /\ mem = None /\ data = None /\ data_bytes_needed = None
    /\ alog = <<>> /\ aexc = NoExc /\ aret = None

\* lines 41-42: np.empty creates the array object (its elements uninitialised);
\* numpy raises MemoryError when the buffer cannot be obtained
Alloc_NpEmpty ==
    /\ apc = "np_empty"
    /\ \/ /\ data' = Some([i \in 1..Product(dimensions) |-> "uninit"])
          /\ data_bytes_needed' = Some(NBytes(dimensions, itemsize))
          /\ apc' = "import" /\ aexc' = aexc
       \/ /\ aexc' = "MemoryError" /\ apc' = "unwind"
          /\ UNCHANGED <<data, data_bytes_needed>>
    /\ UNCHANGED <<dimensions, itemsize, fill_value, sysAvailable, sysUsed, mem,
                   alog, aret>>
    /\ UNCHANGED <<fmtVars, timeVars, cacheVars>>

\* a variant that treats psutil as optional and skips the check without it
Alloc_ImportOptional ==
    /\ apc = "import"
    /\ \/ apc' = "query" /\ aexc' = aexc
       \/ apc' = "fill" /\ aexc' = aexc
    /\ UNCHANGED <<dimensions, itemsize, fill_value, sysAvailable, sysUsed, mem,
                   data, data_bytes_needed, alog, aret>>
    /\ UNCHANGED <<fmtVars, timeVars, cacheVars>>

\* line 45: from psutil import virtual_memory
Alloc_Import ==
    /\ apc = "import"
    /\ \/ apc' = "query" /\ aexc' = aexc
       \/ aexc' = "ImportError" /\ apc' = "unwind"
    /\ UNCHANGED <<dimensions, itemsize, fill_value, sysAvailable, sysUsed, mem,
                   data, data_bytes_needed, alog, aret>>
    /\ UNCHANGED <<fmtVars, timeVars, cacheVars>>

\* line 48: mem = virtual_memory(); the call may itself fail
Alloc_Query ==
    /\ apc = "query"
    /\ \/ /\ mem' = Some([available |-> sysAvailable, used |-> sysUsed])
          /\ apc' = "check" /\ aexc' = aexc
       \/ /\ \E e \in {"OSError", "MemoryError"} : aexc' = e
          /\ apc' = "unwind" /\ mem' = mem
    /\ UNCHANGED <<dimensions, itemsize, fill_value, sysAvailable, sysUsed,
                   data, data_bytes_needed, alog, aret>>
    /\ UNCHANGED <<fmtVars, timeVars, cacheVars>>

\* lines 49-50
Alloc_Check ==
    /\ apc = "check"
    /\ IF InsufficientMemory(Val(mem).available, Val(data_bytes_needed))
       THEN aexc' = "MemoryError" /\ apc' = "unwind"
       ELSE aexc' = aexc /\ apc' = "fill"
    /\ UNCHANGED <<dimensions, itemsize, fill_value, sysAvailable, sysUsed, mem,
                   data, data_bytes_needed, alog, aret>>
    /\ UNCHANGED <<fmtVars, timeVars, cacheVars>>

\* line 53: data.fill(fill_value)
Alloc_Fill ==
    /\ apc = "fill"
    /\ data' = Some([i \in DOMAIN Val(data) |-> fill_value])
    /\ apc' = "return"
    /\ UNCHANGED <<dimensions, itemsize, fill_value, sysAvailable, sysUsed, mem,
                   data_bytes_needed, alog, aexc, aret>>
    /\ UNCHANGED <<fmtVars, timeVars, cacheVars>>

\* line 56: return data
Alloc_Return ==
    /\ apc = "return"
    /\ aret' = data
    /\ apc' = "returned"
    /\ UNCHANGED <<dimensions, itemsize, fill_value, sysAvailable, sysUsed, mem,
                   data, data_bytes_needed, alog, aexc>>
    /\ UNCHANGED <<fmtVars, timeVars, cacheVars>>

\* lines 58-63: only MemoryError is caught; it is logged and raised anew.
\* Any other exception leaves the function as it is.
Alloc_Except ==
    /\ apc = "unwind"
    /\ IF aexc = "MemoryError"
       THEN /\ alog' = Append(alog, LogRecord(mem, data_bytes_needed))
            /\ aexc' = "MemoryError"
       ELSE UNCHANGED <<alog, aexc>>
    /\ apc' = "raised"
    /\ UNCHANGED <<dimensions, itemsize, fill_value, sysAvailable, sysUsed, mem,
                   data, data_bytes_needed, aret>>
    /\ UNCHANGED <<fmtVars, timeVars, cacheVars>>

AllocNext ==
    \/ Alloc_NpEmpty \/ Alloc_Import \/ Alloc_Query \/ Alloc_Check
    \/ Alloc_Fill \/ Alloc_Return \/ Alloc_Except

\* ================================================================
\* number_to_padded_string / numbers_to_padded_string
\* ================================================================

ValueSet == {-12, -3, 0, 1, 2, 3}
Separators == {<<",", " ">>, <<";">>, <<>>}

DigitChar(d) == <<"0", "1", "2", "3", "4", "5", "6", "7", "8", "9">>[d + 1]

RECURSIVE Digits(_)
Digits(n) == IF n < 10 THEN <<DigitChar(n)>>
             ELSE Append(Digits(n \div 10), DigitChar(n % 10))

\* str(value) of an int
Str(v) == IF v < 0 THEN <<"-">> \o Digits(-v) ELSE Digits(v)

Spaces(n) == [i \in 1..n |-> " "]

\* str.ljust(w, ' ') and str.rjust(w, ' '): no effect when w <= len(s)
LJust(s, w) == IF w <= Len(s) THEN s ELSE s \o Spaces(w - Len(s))
RJust(s, w) == IF w <= Len(s) THEN s ELSE Spaces(w - Len(s)) \o s

\* lines 127-133
number_to_padded_string(value, w, ps) ==
    LET padded_str == (IF ps /\ value >= 0 THEN <<" ">> ELSE <<>>) \o Str(value)
    IN  IF w < 0 THEN RJust(padded_str, w * (-1))
        ELSE IF w > 0 THEN LJust(padded_str, w)
        ELSE padded_str

\* lines 150-154: the rendered values, each with width 0
PaddedValues(vals, ps) == [i \in DOMAIN vals |-> number_to_padded_string(vals[i], 0, ps)]

RECURSIVE SumLen(_)
SumLen(strs) == IF strs = <<>> THEN 0 ELSE Len(Head(strs)) + SumLen(Tail(strs))

\* math.ceil(a / b) for b > 0
CeilDiv(a, b) == -((-a) \div b)

\* lines 161-165: a / b < 1 iff a < b for b > 0
SepWidth(vals, w, ps, sep) ==
    LET n == Len(vals)
        num == w - SumLen(PaddedValues(vals, ps)) - ((n - 1) * Len(sep))
    IN  IF num < n - 1 THEN 1 ELSE CeilDiv(num, n - 1)

\* lines 167-173: the loop body for value iValue, given the string so far
RECURSIVE AppendValues(_, _, _, _, _, _)
AppendValues(padded_str, padded_values, iValue, sep_width, w, sep) ==
    IF iValue > Len(padded_values) THEN padded_str
    ELSE LET s1 == padded_str \o sep
             s2 == IF Len(s1) + sep_width + Len(padded_values[iValue]) > w
                   THEN s1 \o LJust(<<>>, w - Len(s1) - Len(padded_values[iValue]))
                   ELSE s1 \o LJust(<<>>, sep_width)
         IN  AppendValues(s2 \o padded_values[iValue], padded_values, iValue + 1,
                          sep_width, w, sep)

\* lines 147-175
numbers_to_padded_string(vals, w, ps, sep) ==
    IF Len(vals) = 0 THEN <<>>
    ELSE LET padded_values == PaddedValues(vals, ps)
         IN  IF Len(vals) = 1 THEN LJust(padded_values[1], w)
             ELSE AppendValues(padded_values[1], padded_values, 2,
                               SepWidth(vals, w, ps, sep), w, sep)

ValueSeqs == UNION {[1..n -> ValueSet] : n \in 0..MaxCount}

FmtIdle ==
    /\ fpc = "idle" /\ values = <<>> /\ width = 0 /\ pos_space = FALSE
    /\ separator = <<>> /\ fret = None

FmtInit ==
    /\ fpc = "call"
    /\ values \in ValueSeqs
    /\ width \in 0..MaxWidth
    /\ pos_space \in BOOLEAN
    /\ separator \in Separators
    /\ fret = None

\* numbers_to_padded_string(values, width, pos_space, separator)
Fmt_Call ==
    /\ fpc = "call"
    /\ fret' = Some(numbers_to_padded_string(values, width, pos_space, separator))
    /\ fpc' = "returned"
    /\ UNCHANGED <<values, width, pos_space, separator>>
    /\ UNCHANGED <<allocVars, timeVars, cacheVars>>

FmtNext == Fmt_Call

\* ================================================================
\* time_func
\* ================================================================

MsPerSecond == 1000

\* lines 211-212
ClampLoop(n) == IF n < 1 THEN 1 ELSE n

\* np.zeros(n)
Zeros(n) == [i \in 1..n |-> 0]

SeqMin(s) == CHOOSE x \in {s[i] : i \in DOMAIN s} : \A j \in DOMAIN s : x <= s[j]
SeqMax(s) == CHOOSE x \in {s[i] : i \in DOMAIN s} : \A j \in DOMAIN s : x >= s[j]

TimeIdle ==
    /\ tpc = "idle" /\ loopArg = 0 /\ pre_fun = FALSE /\ loop = 0 /\ iLoop = 0
    /\ times = <<>> /\ clock = 0 /\ time1 = 0 /\ time2 = 0 /\ events = <<>>
    /\ tret = None

\* the call time_func(fun, pre_fun, loop): pre_fun is TRUE when one is supplied
TimeInit ==
    /\ tpc = "clamp"
    /\ loopArg \in (-1)..MaxLoop
    /\ pre_fun \in BOOLEAN
    /\ loop = loopArg /\ iLoop = 0
    /\ times = <<>> /\ clock = 0 /\ time1 = 0 /\ time2 = 0 /\ events = <<>>
    /\ tret = None

\* lines 211-216: clamp, allocate the samples, enter the loop (loop >= 1 here)
Time_Clamp ==
    /\ tpc = "clamp"
    /\ loop' = ClampLoop(loop)
    /\ times' = Zeros(loop')
    /\ iLoop' = 0
    /\ tpc' = "pre"
    /\ UNCHANGED <<loopArg, pre_fun, clock, time1, time2, events, tret>>
    /\ UNCHANGED <<allocVars, fmtVars, cacheVars>>

\* a variant that calls pre_fun on the first iteration only
Time_PreFirstOnly ==
    /\ tpc = "pre"
    /\ IF pre_fun /\ iLoop = 0
       THEN /\ events' = Append(events, "pre")
            /\ \E d \in 0..MaxDur : clock' = clock + d
       ELSE UNCHANGED <<events, clock>>
    /\ tpc' = "time1"
    /\ UNCHANGED <<loopArg, pre_fun, loop, iLoop, times, time1, time2, tret>>
    /\ UNCHANGED <<allocVars, fmtVars, cacheVars>>

\* lines 219-220: the pre-function, which takes some time d
Time_Pre ==
    /\ tpc = "pre"
    /\ IF pre_fun
       THEN /\ events' = Append(events, "pre")
            /\ \E d \in 0..MaxDur : clock' = clock + d
       ELSE UNCHANGED <<events, clock>>
    /\ tpc' = "time1"
    /\ UNCHANGED <<loopArg, pre_fun, loop, iLoop, times, time1, time2, tret>>
    /\ UNCHANGED <<allocVars, fmtVars, cacheVars>>

\* line 223: time1 = time.time()
Time_Time1 ==
    /\ tpc = "time1"
    /\ time1' = clock
    /\ events' = Append(events, "time1")
    /\ tpc' = "fun"
    /\ UNCHANGED <<loopArg, pre_fun, loop, iLoop, times, clock, time2, tret>>
    /\ UNCHANGED <<allocVars, fmtVars, cacheVars>>

\* line 224: fun(*args, **kwargs), which takes some time d
Time_Fun ==
    /\ tpc = "fun"
    /\ events' = Append(events, "fun")
    /\ \E d \in 0..MaxDur : clock' = clock + d
    /\ tpc' = "time2"
    /\ UNCHANGED <<loopArg, pre_fun, loop, iLoop, times, time1, time2, tret>>
    /\ UNCHANGED <<allocVars, fmtVars, cacheVars>>

\* line 225: time2 = time.time()
Time_Time2 ==
    /\ tpc = "time2"
    /\ time2' = clock
    /\ events' = Append(events, "time2")
    /\ tpc' = "store"
    /\ UNCHANGED <<loopArg, pre_fun, loop, iLoop, times, clock, time1, tret>>
    /\ UNCHANGED <<allocVars, fmtVars, cacheVars>>

\* line 228 and the loop's next step (line 216)
Time_Store ==
    /\ tpc = "store"
    /\ times' = [times EXCEPT ![iLoop + 1] = (time2 - time1) * MsPerSecond]
    /\ iLoop' = iLoop + 1
    /\ tpc' = IF iLoop + 1 < loop THEN "pre" ELSE "return"
    /\ UNCHANGED <<loopArg, pre_fun, loop, clock, time1, time2, events, tret>>
    /\ UNCHANGED <<allocVars, fmtVars, cacheVars>>

\* line 231: the range and the samples (mean and std are floating-point
\* statistics of the same samples and are not represented)
Time_Return ==
    /\ tpc = "return"
    /\ tret' = Some([range |-> <<SeqMin(times), SeqMax(times)>>, times |-> times])
    /\ tpc' = "returned"
    /\ UNCHANGED <<loopArg, pre_fun, loop, iLoop, times, clock, time1, time2, events>>
    /\ UNCHANGED <<allocVars, fmtVars, cacheVars>>

TimeNext ==
    \/ Time_Clamp \/ Time_Pre \/ Time_Time1 \/ Time_Fun \/ Time_Time2
    \/ Time_Store \/ Time_Return

\* ================================================================
\* run_cmd and clear_virtual_cache
\* ================================================================

Platforms == {"win32", "linux", "linux2", "darwin", "cygwin", "freebsd"}

\* os.environ as a mapping over the keys of interest; Unset marks an absent key
EnvKeys == {"DEBUG", "SUDO_ASKPASS", "LANG"}
Unset == "<unset>"
Environments == [EnvKeys -> {Unset, "0"}]
\* the env argument of run_cmd: a dict, Unset marking the keys it does not hold
EnvArgs == [EnvKeys -> {Unset, "1"}]
NoEnv == [k \in EnvKeys |-> Unset]

HelperScript == "./mac_prompt_pw.sh"
RamMapCmd == "RAMMap64.exe -Et"
ChmodCmd == "chmod +x ./mac_prompt_pw.sh"
PurgeCmd == "sudo -A /usr/sbin/purge"
\* what os.system returns: 0, or the wait status of a failed command
ExitStatuses == {0, 256}
PurgeTries == 5

\* dict.update(env)
EnvUpdate(e, env) == [k \in EnvKeys |-> IF env[k] # Unset THEN env[k] ELSE e[k]]
\* dict.pop(key, None)
EnvPop(e, key) == [e EXCEPT ![key] = Unset]

CacheIdle ==
    /\ func = "none" /\ cpc = "idle" /\ platform = "linux" /\ exeExists = FALSE
    /\ scriptExists = FALSE /\ scriptExecutable = FALSE
    /\ environ = NoEnv /\ environ0 = NoEnv /\ cmdEnv = NoEnv
    /\ retry_purge = 0 /\ purgeStatus = <<>> /\ systemCalls = <<>>
    /\ subprocessEnv = None /\ syncCalls = 0 /\ dropCaches = <<>>
    /\ console = <<>> /\ cexc = NoExc

\* a call of clear_virtual_cache() or of run_cmd(command, env) in a process
\* whose platform, files and environment are inputs
CacheInit ==
    /\ func \in {"clear_virtual_cache", "run_cmd"}
    /\ cpc = (IF func = "run_cmd" THEN "run_cmd" ELSE "dispatch")
    /\ platform \in Platforms
    /\ exeExists \in BOOLEAN
    /\ scriptExists \in BOOLEAN
    /\ scriptExecutable = FALSE
    /\ environ \in Environments
    /\ environ0 = environ
    /\ cmdEnv \in (IF func = "run_cmd" THEN EnvArgs ELSE {NoEnv})
    /\ retry_purge = 0 /\ purgeStatus = <<>> /\ systemCalls = <<>>
    /\ subprocessEnv = None /\ syncCalls = 0 /\ dropCaches = <<>>
    /\ console = <<>> /\ cexc = NoExc

\* lines 179-181: merged_env is os.environ itself, not a copy
RunCmd_Merge ==
    /\ cpc = "run_cmd"
    /\ environ' = EnvPop(EnvUpdate(environ, cmdEnv), "DEBUG")
    /\ cpc' = "subprocess"
    /\ UNCHANGED <<func, platform, exeExists, scriptExists, scriptExecutable, environ0,
                   cmdEnv, retry_purge, purgeStatus, systemCalls, subprocessEnv,
                   syncCalls, dropCaches, console, cexc>>
    /\ UNCHANGED <<allocVars, fmtVars, timeVars>>

\* lines 182-189: subprocess.run(command, env=merged_env, ...)
RunCmd_Run ==
    /\ cpc = "subprocess"
    /\ subprocessEnv' = Some(environ)
    /\ cpc' = "returned"
    /\ UNCHANGED <<func, platform, exeExists, scriptExists, scriptExecutable, environ,
                   environ0, cmdEnv, retry_purge, purgeStatus, systemCalls,
                   syncCalls, dropCaches, console, cexc>>
    /\ UNCHANGED <<allocVars, fmtVars, timeVars>>

\* lines 239-240, 255, 262: the platform test; no branch matches any other
\* platform and the function returns None
Cache_Dispatch ==
    /\ cpc = "dispatch"
    /\ cpc' = CASE platform = "win32" -> "win_check"
                [] platform \in {"linux", "linux2"} -> "linux_sync"
                [] platform = "darwin" -> "mac_write"
                [] OTHER -> "returned"
    /\ UNCHANGED <<func, platform, exeExists, scriptExists, scriptExecutable, environ,
                   environ0, cmdEnv, retry_purge, purgeStatus, systemCalls,
                   subprocessEnv, syncCalls, dropCaches, console, cexc>>
    /\ UNCHANGED <<allocVars, fmtVars, timeVars>>

\* a variant that goes on to run the executable when it is missing
Win_CheckExeNoExit ==
    /\ cpc = "win_check"
    /\ IF ~exeExists
       THEN console' = Append(console, "error: could not find RAMMAP64.exe")
       ELSE console' = console
    /\ cpc' = "win_run" /\ cexc' = cexc
    /\ UNCHANGED <<func, platform, exeExists, scriptExists, scriptExecutable, environ,
                   environ0, cmdEnv, retry_purge, purgeStatus, systemCalls,
                   subprocessEnv, syncCalls, dropCaches>>
    /\ UNCHANGED <<allocVars, fmtVars, timeVars>>

\* lines 247-249: exit(1) raises SystemExit with status 1
Win_CheckExe ==
    /\ cpc = "win_check"
    /\ IF ~exeExists
       THEN /\ console' = Append(console, "error: could not find RAMMAP64.exe")
            /\ cexc' = "SystemExit(1)"
            /\ cpc' = "raised"
       ELSE /\ cpc' = "win_run"
            /\ UNCHANGED <<console, cexc>>
    /\ UNCHANGED <<func, platform, exeExists, scriptExists, scriptExecutable, environ,
                   environ0, cmdEnv, retry_purge, purgeStatus, systemCalls,
                   subprocessEnv, syncCalls, dropCaches>>
    /\ UNCHANGED <<allocVars, fmtVars, timeVars>>

\* lines 252-253
Win_Run ==
    /\ cpc = "win_run"
    /\ systemCalls' = Append(systemCalls, RamMapCmd)
    /\ console' = Append(console, "Cleared virtual memory")
    /\ cpc' = "returned"
    /\ UNCHANGED <<func, platform, exeExists, scriptExists, scriptExecutable, environ,
                   environ0, cmdEnv, retry_purge, purgeStatus, subprocessEnv,
                   syncCalls, dropCaches, cexc>>
    /\ UNCHANGED <<allocVars, fmtVars, timeVars>>

\* line 257
Linux_Sync ==
    /\ cpc = "linux_sync"
    /\ syncCalls' = syncCalls + 1
    /\ cpc' = "linux_drop"
    /\ UNCHANGED <<func, platform, exeExists, scriptExists, scriptExecutable, environ,
                   environ0, cmdEnv, retry_purge, purgeStatus, systemCalls,
                   subprocessEnv, dropCaches, console, cexc>>
    /\ UNCHANGED <<allocVars, fmtVars, timeVars>>

\* lines 258-260: open() raises PermissionError without the privilege
Linux_DropCaches ==
    /\ cpc = "linux_drop"
    /\ \/ /\ dropCaches' = Append(dropCaches, "1\n")
          /\ console' = Append(console, "Cleared virtual memory")
          /\ cpc' = "returned" /\ cexc' = cexc
       \/ /\ cexc' = "PermissionError" /\ cpc' = "raised"
          /\ UNCHANGED <<dropCaches, console>>
    /\ UNCHANGED <<func, platform, exeExists, scriptExists, scriptExecutable, environ,
                   environ0, cmdEnv, retry_purge, purgeStatus, systemCalls,
                   subprocessEnv, syncCalls>>
    /\ UNCHANGED <<allocVars, fmtVars, timeVars>>

\* lines 273-275: open(..., 'w') creates or truncates the script, or raises
\* when the file or the directory cannot be written
Mac_WriteScript ==
    /\ cpc = "mac_write"
    /\ \/ /\ scriptExists' = TRUE
          /\ cpc' = "mac_env" /\ cexc' = cexc
       \/ /\ cexc' = "PermissionError" /\ cpc' = "raised"
          /\ scriptExists' = scriptExists
    /\ UNCHANGED <<func, platform, exeExists, scriptExecutable, environ, environ0, cmdEnv,
                   retry_purge, purgeStatus, systemCalls, subprocessEnv, syncCalls,
                   dropCaches, console>>
    /\ UNCHANGED <<allocVars, fmtVars, timeVars>>

\* line 279
Mac_SetEnv ==
    /\ cpc = "mac_env"
    /\ environ' = [environ EXCEPT !["SUDO_ASKPASS"] = HelperScript]
    /\ cpc' = "mac_chmod"
    /\ UNCHANGED <<func, platform, exeExists, scriptExists, scriptExecutable, environ0,
                   cmdEnv, retry_purge, purgeStatus, systemCalls, subprocessEnv,
                   syncCalls, dropCaches, console, cexc>>
    /\ UNCHANGED <<allocVars, fmtVars, timeVars>>

\* lines 280-281: the status of chmod is not looked at
Mac_Chmod ==
    /\ cpc = "mac_chmod"
    /\ systemCalls' = Append(systemCalls, ChmodCmd)
    /\ \E st \in ExitStatuses : scriptExecutable' = (st = 0)
    /\ retry_purge' = 0
    /\ cpc' = "mac_loop"
    /\ UNCHANGED <<func, platform, exeExists, scriptExists, environ, environ0, cmdEnv,
                   purgeStatus, subprocessEnv, syncCalls, dropCaches, console, cexc>>
    /\ UNCHANGED <<allocVars, fmtVars, timeVars>>

\* line 282: the loop test
PurgeLoopOneMore(n) == n <= PurgeTries
PurgeLoopContinues(n) == n < PurgeTries

\* lines 282-287: one pass of the loop body
Mac_Purge ==
    /\ cpc = "mac_loop"
    /\ PurgeLoopContinues(retry_purge)
    /\ systemCalls' = Append(systemCalls, PurgeCmd)
    /\ \E st \in ExitStatuses :
          /\ purgeStatus' = Append(purgeStatus, st)
          /\ IF st = 0
             THEN /\ cpc' = "mac_warn"
                  /\ UNCHANGED <<console, retry_purge>>
             ELSE /\ console' = Append(console, "Retry purge")
                  /\ retry_purge' = retry_purge + 1
                  /\ cpc' = "mac_loop"
    /\ UNCHANGED <<func, platform, exeExists, scriptExists, scriptExecutable, environ,
                   environ0, cmdEnv, subprocessEnv, syncCalls, dropCaches, cexc>>
    /\ UNCHANGED <<allocVars, fmtVars, timeVars>>

\* line 282: the loop ends when its test fails
Mac_LoopEnd ==
    /\ cpc = "mac_loop"
    /\ ~PurgeLoopContinues(retry_purge)
    /\ cpc' = "mac_warn"
    /\ UNCHANGED <<func, platform, exeExists, scriptExists, scriptExecutable, environ,
                   environ0, cmdEnv, retry_purge, purgeStatus, systemCalls,
                   subprocessEnv, syncCalls, dropCaches, console, cexc>>
    /\ UNCHANGED <<allocVars, fmtVars, timeVars>>

\* lines 288-289
Mac_Warn ==
    /\ cpc = "mac_warn"
    /\ console' = IF retry_purge = PurgeTries
                  THEN Append(console, "error: could not purge after 5 tries, skipping")
                  ELSE console
    /\ cpc' = "mac_remove"
    /\ UNCHANGED <<func, platform, exeExists, scriptExists, scriptExecutable, environ,
                   environ0, cmdEnv, retry_purge, purgeStatus, systemCalls,
                   subprocessEnv, syncCalls, dropCaches, cexc>>
    /\ UNCHANGED <<allocVars, fmtVars, timeVars>>

\* a variant that removes the script only after a successful purge
Mac_RemoveOnSuccess ==
    /\ cpc = "mac_remove"
    /\ IF retry_purge < PurgeTries
       THEN scriptExists' = FALSE /\ scriptExecutable' = FALSE
       ELSE UNCHANGED <<scriptExists, scriptExecutable>>
    /\ console' = Append(console, "Cleared virtual memory")
    /\ cpc' = "returned"
    /\ UNCHANGED <<func, platform, exeExists, environ, environ0, cmdEnv, retry_purge,
                   purgeStatus, systemCalls, subprocessEnv, syncCalls, dropCaches,
                   cexc>>
    /\ UNCHANGED <<allocVars, fmtVars, timeVars>>

\* lines 290-293
Mac_Remove ==
    /\ cpc = "mac_remove"
    /\ scriptExists' = FALSE /\ scriptExecutable' = FALSE
    /\ console' = Append(console, "Cleared virtual memory")
    /\ cpc' = "returned"
    /\ UNCHANGED <<func, platform, exeExists, environ, environ0, cmdEnv, retry_purge,
                   purgeStatus, systemCalls, subprocessEnv, syncCalls, dropCaches,
                   cexc>>
    /\ UNCHANGED <<allocVars, fmtVars, timeVars>>

CacheNext ==
    \/ RunCmd_Merge \/ RunCmd_Run \/ Cache_Dispatch
    \/ Win_CheckExe \/ Win_Run
    \/ Linux_Sync \/ Linux_DropCaches
    \/ Mac_WriteScript \/ Mac_SetEnv \/ Mac_Chmod \/ Mac_Purge \/ Mac_LoopEnd
    \/ Mac_Warn \/ Mac_Remove

\* ================================================================
\* specifications: one call of one function per behaviour
\* ================================================================

InitAlloc == AllocInit /\ FmtIdle /\ TimeIdle /\ CacheIdle
InitFormat == AllocIdle /\ FmtInit /\ TimeIdle /\ CacheIdle
InitTime == AllocIdle /\ FmtIdle /\ TimeInit /\ CacheIdle
InitCache == AllocIdle /\ FmtIdle /\ TimeIdle /\ CacheInit

SpecAlloc == InitAlloc /\ [][AllocNext]_vars
SpecFormat == InitFormat /\ [][FmtNext]_vars
SpecTime == InitTime /\ [][TimeNext]_vars
SpecCache == InitCache /\ [][CacheNext]_vars

Init == InitAlloc \/ InitFormat \/ InitTime \/ InitCache

Next == AllocNext \/ FmtNext \/ TimeNext \/ CacheNext

Spec == Init /\ [][Next]_vars

\* ================================================================
\* properties
\* ================================================================

BytesNeeded == NBytes(dimensions, itemsize)
Filled(d) == d # None /\ \E i \in DOMAIN Val(d) : Val(d)[i] # "uninit"

C2_QueryUnavailableIsOutOfMemory ==
    (apc \in {"raised", "returned"} /\ data # None /\ mem = None)
       => /\ apc = "raised" /\ aexc = "MemoryError"
          /\ Len(alog) = 1 /\ alog[1].kind = "reduced"
          /\ ~Filled(data) /\ aret = None

ReducedOnly == \A i \in DOMAIN alog : alog[i].kind = "reduced"

\* C2 amended: when allocate_array ends without a query result it has raised,
\* no buffer was filled or returned and no MB estimate was logged; it raises
\* MemoryError with exactly the reduced diagnostic when a MemoryError arose
\* before the query returned, and any other failure of the query (ImportError,
\* OSError) leaves the function unchanged with nothing logged.
C2_NoQueryResultStillFails ==
    (apc \in {"raised", "returned"} /\ mem = None)
       => /\ apc = "raised"
          /\ ~Filled(data) /\ aret = None /\ ReducedOnly
          /\ aexc \in {"MemoryError", "ImportError", "OSError"}
          /\ (aexc = "MemoryError" => (Len(alog) = 1 /\ alog[1].kind = "reduced"))
          /\ (aexc # "MemoryError" => alog = <<>>)

C2_Witness ==
    /\ apc = "raised" /\ data # None /\ mem = None
    /\ aexc = "MemoryError"
    /\ Len(alog) = 1 /\ alog[1].kind = "reduced" /\ alog[1].mb = None

\* the sum of the values' unpadded rendered widths plus the separators
NaturalLength(vals, ps, sep) ==
    SumLen(PaddedValues(vals, ps)) + (Len(vals) - 1) * Len(sep)

\* C3: the returned string is never longer than max(width, natural unpadded
\* length).
C3_LengthBound ==
    fpc = "returned"
       => Len(Val(fret)) <= Max(width, NaturalLength(values, pos_space, separator))

\* the rendered values in order, value i > 1 preceded by the separator and
\* gaps[i] spaces
RECURSIVE Joined(_, _, _, _)
Joined(pvs, gaps, sep, i) ==
    IF i > Len(pvs) THEN <<>>
    ELSE (IF i = 1 THEN <<>> ELSE sep \o Spaces(gaps[i])) \o pvs[i]
         \o Joined(pvs, gaps, sep, i + 1)

\* C4: for two or more values that fit in width together with their
\* separators, the returned string has length exactly width and consists of
\* the rendered values in order, each after the first preceded by the
\* separator and a gap of spaces.
C4_ExactWidth ==
    (fpc = "returned" /\ Len(values) >= 2
        /\ NaturalLength(values, pos_space, separator) <= width)
       => /\ Len(Val(fret)) = width
          /\ \E gaps \in [1..Len(values) -> 0..width] :
                Val(fret) = Joined(PaddedValues(values, pos_space), gaps, separator, 1)

SupportedPlatforms == {"win32", "linux", "linux2", "darwin"}
\* C5: on a platform that is neither Windows, Linux nor macOS,
\* clear_virtual_cache ends by raising an unsupported-platform failure, and no
\* command was run and no file written.
C5_UnsupportedPlatformFails ==
    (func = "clear_virtual_cache" /\ platform \notin SupportedPlatforms
        /\ cpc \in {"returned", "raised"})
       => /\ cpc = "raised" /\ cexc # NoExc
          /\ systemCalls = <<>> /\ subprocessEnv = None /\ syncCalls = 0
          /\ dropCaches = <<>>

\* C6: once clear_virtual_cache has returned on macOS the helper script does
\* not exist, whether a purge succeeded or all attempts failed.
C6_HelperScriptRemoved ==
    (func = "clear_virtual_cache" /\ platform = "darwin" /\ cpc = "returned")
       => ~scriptExists

AllFailed(st) == \A i \in DOMAIN st : st[i] # 0

C6_Witness ==
    /\ func = "clear_virtual_cache" /\ platform = "darwin" /\ cpc = "returned"
    /\ Len(purgeStatus) = PurgeTries /\ AllFailed(purgeStatus)
    /\ ~scriptExists

TimesRun(cmd) == Cardinality({i \in DOMAIN systemCalls : systemCalls[i] = cmd})
ErrorReported == \E i \in DOMAIN console : console[i] = "error: could not find RAMMAP64.exe"

IterationEvents(pre) == (IF pre THEN <<"pre">> ELSE <<>>) \o <<"time1", "fun", "time2">>

RECURSIVE Repeat(_, _)
Repeat(unit, n) == IF n <= 0 THEN <<>> ELSE unit \o Repeat(unit, n - 1)

\* C8: for every iteration count n, time_func returns exactly max(1, n)
\* samples and has called the function exactly max(1, n) times, each call
\* between its own two clock readings; a supplied pre-function is called once
\* before each pair of clock readings and never between them.
C8_SamplesAndCalls ==
    tpc = "returned"
       => /\ Len(Val(tret).times) = Max(1, loopArg)
          /\ events = Repeat(IterationEvents(pre_fun), Max(1, loopArg))

C8_Witness ==
    /\ tpc = "returned" /\ loopArg < 1 /\ pre_fun
    /\ Len(Val(tret).times) = 1
    /\ events = <<"pre", "time1", "fun", "time2">>

PurgeWarned ==
    \E i \in DOMAIN console : console[i] = "error: could not purge after 5 tries, skipping"

\* C9: on macOS the purge command is run at least once and at most 5 times,
\* every attempt but the last returned non-zero, and after 5 failures the
\* routine prints the warning and returns without raising.
C9_PurgeRetries ==
    /\ TimesRun(PurgeCmd) = Len(purgeStatus)
    /\ Len(purgeStatus) <= 5
    /\ \A i \in DOMAIN purgeStatus : i < Len(purgeStatus) => purgeStatus[i] # 0
    /\ (Len(purgeStatus) = 5 /\ AllFailed(purgeStatus)) => cpc # "raised"
    /\ (func = "clear_virtual_cache" /\ platform = "darwin" /\ cpc = "returned")
          => /\ Len(purgeStatus) >= 1
             /\ cexc = NoExc
             /\ (Len(purgeStatus) = 5 /\ AllFailed(purgeStatus)) => PurgeWarned

C9_Witness ==
    /\ func = "clear_virtual_cache" /\ platform = "darwin" /\ cpc = "returned"
    /\ Len(purgeStatus) = 5 /\ AllFailed(purgeStatus)
    /\ PurgeWarned /\ cexc = NoExc

\* C10: when clear_virtual_cache or run_cmd has returned, the process
\* environment is what it was when the call was made.
C10_EnvironUnchanged ==
    cpc = "returned" => environ = environ0

====
